---------------------------- MODULE Spec2Model ----------------------------
(***************************************************************************)
(* Term trimming, term reduction and sentence merging of                   *)
(* agr_genedescriptions (genedescriptions/trimming.py and                  *)
(* genedescriptions/descriptions_generator.py).                            *)
(*                                                                         *)
(* Ontology terms are the integers 1..NumNodes.  The ontology is a DAG     *)
(* given by the parents of every term; ancestors and depth are the values  *)
(* the ontology accessor answers for that DAG.  Python lists are           *)
(* sequences, Python sets are sets, None is the string "None".             *)
(***************************************************************************)
EXTENDS Integers, Sequences, FiniteSets, TLC

VARIABLES
    ontology,   \* the Ontology object: parents, ancestors, depth, namespace, IC
    trimmer,    \* the fields of the TrimmingAlgorithm object
    call,       \* the operation last called and its arguments
    ret,        \* what that operation returned (or that it raised)
    fsc,        \* the local variables of a running find_set_covering
    generator,  \* the fields of the OntologySentenceGenerator object
    gms         \* the local variables of a running get_module_sentences

vars == <<ontology, trimmer, call, ret, fsc, generator, gms>>

(***************************************************************************)
(* Bounds of the model.                                                    *)
(***************************************************************************)
NumNodes == 4          \* terms of the ontology
MaxDist == 2           \* largest min_distance_from_root
MaxCap == 2            \* largest max_num_nodes / max_num_subsets
MaxIC == 2             \* largest information content of a term
MaxDeviations == 1     \* terms that differ from the plain setting
MaxWeight == 3         \* largest weight given to find_set_covering directly

Nodes == 1..NumNodes
NoValue == "None"
Namespaces == {"a", "b"}

(***************************************************************************)
(* Generic helpers on sets and sequences.                                  *)
(***************************************************************************)
SeqToSet(s) == {s[i] : i \in DOMAIN s}

MaxOf(S) == CHOOSE x \in S : \A y \in S : y <= x

MinOf(S) == CHOOSE x \in S : \A y \in S : x <= y

RECURSIVE SetToSeq(_)
\* the elements of a set of integers as a list, in ascending order
SetToSeq(S) ==
    IF S = {} THEN <<>>
    ELSE LET m == MinOf(S) IN <<m>> \o SetToSeq(S \ {m})

RECURSIVE UnionOfSeq(_)
UnionOfSeq(s) == IF s = <<>> THEN {} ELSE Head(s) \cup UnionOfSeq(Tail(s))

\* s[0:n] of Python
Prefix(s, n) == SubSeq(s, 1, IF n < Len(s) THEN n ELSE Len(s))

RemoveAt(s, i) == SubSeq(s, 1, i - 1) \o SubSeq(s, i + 1, Len(s))

(***************************************************************************)
(* The ontology accessor.                                                  *)
(***************************************************************************)
RECURSIVE AncestorsIn(_, _)
\* ontology.ancestors(node): the strict ancestors of n in the DAG par
AncestorsIn(par, n) ==
    UNION {{p} \cup AncestorsIn(par, p) : p \in par[n]}

RECURSIVE DepthIn(_, _)
\* node["depth"]: the distance of n from its root along the longest path
DepthIn(par, n) ==
    IF par[n] = {} THEN 0
    ELSE 1 + MaxOf({DepthIn(par, p) : p \in par[n]})

\* ontology.ancestors(node, reflexive)
Ancestors(n, reflexive) ==
    IF reflexive THEN ontology.ancestors[n] \cup {n} ELSE ontology.ancestors[n]

\* ontology.parents(node)
Parents(n) == ontology.parents[n]

\* ontology.node(n)["depth"]
Depth(n) == ontology.depth[n]

\* the value of the OIO:hasOBONamespace property of a node, None without one
NodeRoot(n) == ontology.namespace[n]

\* ontology.label(n): labels are distinct and not in the order of the ids
Label(n) == IF n % 2 = 0 THEN n ELSE NumNodes + 1 + n

(***************************************************************************)
(* TrimmingAlgorithm.nodes_have_same_root                                  *)
(***************************************************************************)
NodesHaveSameRoot(node_ids) ==
    LET roots == {NodeRoot(n) : n \in node_ids} \ {NoValue}
    IN  IF Cardinality(roots) > 1 THEN "False"
        ELSE IF roots = {} THEN NoValue
        ELSE CHOOSE r \in roots : TRUE

\* the truth value Python gives to what nodes_have_same_root returned
Truthy(common_root) == common_root \notin {"False", NoValue}

(***************************************************************************)
(* TrimmingAlgorithm.get_all_trimming_candidates                           *)
(***************************************************************************)
\* the ancestors dictionary: the starting nodes every accepted ancestor covers
\* CoveredBy without the test that the candidate is an ancestor of the node
CoveredByAnyNode(ancestor, node_ids, min_distance_from_root, common_root) ==
    {n \in node_ids :
        /\ Depth(ancestor) >= min_distance_from_root
        /\ (NodeRoot(ancestor) = NoValue \/ NodeRoot(ancestor) = common_root)
        /\ (trimmer.nodeids_blacklist = {} \/ ancestor \notin trimmer.nodeids_blacklist)}

CoveredBy(ancestor, node_ids, min_distance_from_root, common_root) ==
    {n \in node_ids :
        /\ ancestor \in Ancestors(n, TRUE)
        /\ Depth(ancestor) >= min_distance_from_root
        /\ (NodeRoot(ancestor) = NoValue \/ NodeRoot(ancestor) = common_root)
        /\ (trimmer.nodeids_blacklist = {} \/ ancestor \notin trimmer.nodeids_blacklist)}

TrimmingCandidate(node_id, covered) ==
    [node_id |-> node_id, node_label |-> Label(node_id), covered_starting_nodes |-> covered]

\* the candidates, as a list; an error is reported by Truthy(common_root) = FALSE
GetAllTrimmingCandidates(node_ids, min_distance_from_root) ==
    LET common_root == NodesHaveSameRoot(node_ids)
        cov(a) == CoveredBy(a, node_ids, min_distance_from_root, common_root)
        kept == {a \in Nodes : Cardinality(cov(a)) > 1 \/ cov(a) = {a}}
        ids == SetToSeq(kept)
    IN  [i \in 1..Len(ids) |-> TrimmingCandidate(ids[i], cov(ids[i]))]

(***************************************************************************)
(* TrimmingAlgorithm.find_set_covering                                     *)
(***************************************************************************)
\* the local variables after lines 105-110; value = <<>> stands for None,
\* max_num_subsets = 0 for None
FSCStart(subsets, value, max_num_subsets) ==
    [subsets |-> subsets, value |-> value, max_num_subsets |-> max_num_subsets,
     elem_to_process |-> {subsets[i].node_id : i \in DOMAIN subsets},
     universe |-> UNION {subsets[i].covered_starting_nodes : i \in DOMAIN subsets},
     included_elmts |-> {},
     included_sets |-> <<>>,
     selected |-> <<>>]

\* line 106: a weight list of the wrong length makes the call return None
FSCBadValue(subsets, value) ==
    value # <<>> /\ Len(value) # Cardinality({subsets[i].node_id : i \in DOMAIN subsets})

\* the loop condition of lines 111-112
\* FSCContinue without the test of max_num_subsets
FSCContinueUncapped(f) ==
    /\ Cardinality(f.elem_to_process) > 0
    /\ f.included_elmts # f.universe

\* FSCContinue that takes no cap (None) for a cap of zero
FSCContinueCapRequired(f) ==
    /\ Cardinality(f.elem_to_process) > 0
    /\ f.included_elmts # f.universe
    /\ Len(f.included_sets) < f.max_num_subsets

FSCContinue(f) ==
    /\ Cardinality(f.elem_to_process) > 0
    /\ f.included_elmts # f.universe
    /\ (f.max_num_subsets = 0 \/ Len(f.included_sets) < f.max_num_subsets)

\* the indices of the subsets that enter effect_sets (zip stops at the shorter list)
FSCEligible(f) ==
    {i \in DOMAIN f.subsets :
        /\ f.subsets[i].node_id \in f.elem_to_process
        /\ (f.value # <<>> => i <= Len(f.value))}

\* x[0] of an effect_sets entry: marginal coverage, times the weight if given
FSCScore(f, i) ==
    (IF f.value # <<>> THEN f.value[i] ELSE 1)
        * Cardinality(f.subsets[i].covered_starting_nodes \ f.included_elmts)

\* FSCBefore with the equal scores sorted by decreasing label
FSCBeforeLargestLabel(f, i, j) ==
    \/ FSCScore(f, i) > FSCScore(f, j)
    \/ /\ FSCScore(f, i) = FSCScore(f, j)
       /\ f.subsets[i].node_label > f.subsets[j].node_label
    \/ /\ FSCScore(f, i) = FSCScore(f, j)
       /\ f.subsets[i].node_label = f.subsets[j].node_label
       /\ i < j

\* sorted(..., key=(-x[0], x[2])): i is sorted before j (the sort is stable)
FSCBefore(f, i, j) ==
    \/ FSCScore(f, i) > FSCScore(f, j)
    \/ /\ FSCScore(f, i) = FSCScore(f, j)
       /\ f.subsets[i].node_label < f.subsets[j].node_label
    \/ /\ FSCScore(f, i) = FSCScore(f, j)
       /\ f.subsets[i].node_label = f.subsets[j].node_label
       /\ i < j

\* the index of effect_sets[0]
FSCBest(f) ==
    CHOOSE i \in FSCEligible(f) : \A j \in FSCEligible(f) \ {i} : FSCBefore(f, i, j)

RECURSIVE RemoveRelated(_, _, _)
\* lines 123-125: "for elem in included_sets: if ...: included_sets.remove(elem)".
\* The list is changed while it is iterated: after a removal at position i the
\* iterator moves on to position i + 1 of the shortened list.
RemoveRelated(included_sets, new_id, i) ==
    IF i > Len(included_sets) THEN included_sets
    ELSE IF new_id \in Ancestors(included_sets[i][1], FALSE)
         THEN RemoveRelated(RemoveAt(included_sets, i), new_id, i + 1)
         ELSE RemoveRelated(included_sets, new_id, i + 1)

\* one iteration of the loop, lines 113-127
FSCIterate(f) ==
    LET b == FSCBest(f)
        id == f.subsets[b].node_id
        cov == f.subsets[b].covered_starting_nodes
    IN  [f EXCEPT !.elem_to_process = @ \ {id},
                  !.included_sets = Append(RemoveRelated(@, id, 1), <<id, cov>>),
                  !.included_elmts = @ \cup cov,
                  !.selected = Append(@, id)]

RECURSIVE FSCRun(_)
FSCRun(f) == IF FSCContinue(f) THEN FSCRun(FSCIterate(f)) ELSE f

\* the list find_set_covering returns (the callers of this module never pass a
\* weight list of the wrong length)
FindSetCovering(subsets, value, max_num_subsets) ==
    FSCRun(FSCStart(subsets, value, max_num_subsets)).included_sets

(***************************************************************************)
(* What trim returns: raised is TRUE when the call ended in ValueError,    *)
(* otherwise trimmed is the boolean and best_terms the list of             *)
(* (id, covered set) pairs.                                                *)
(***************************************************************************)
Raised == [raised |-> TRUE, trimmed |-> FALSE, best_terms |-> <<>>]

Returned(trimmed, best_terms) ==
    [raised |-> FALSE, trimmed |-> trimmed, best_terms |-> best_terms]

\* set([e for best_term_label, covered_terms in best_terms for e in covered_terms])
CoveredTerms(best_terms) == UNION {best_terms[i][2] : i \in DOMAIN best_terms}

(***************************************************************************)
(* TrimmingAlgorithmIC                                                     *)
(***************************************************************************)
GetCandidateICValue(candidate, node_ids) ==
    IF candidate.node_id \notin node_ids
          /\ Depth(candidate.node_id) < trimmer.min_distance_from_root
    THEN 0
    ELSE IF trimmer.slim_set # {} /\ candidate.node_id \in trimmer.slim_set
    THEN ontology.IC[candidate.node_id] * (1 + trimmer.slim_terms_ic_bonus_perc)
    ELSE ontology.IC[candidate.node_id]

TrimIC(node_ids, max_num_nodes) ==
    IF ~Truthy(NodesHaveSameRoot(node_ids)) THEN Raised
    ELSE
    LET common_ancestors == GetAllTrimmingCandidates(node_ids, 0)
        values == [i \in DOMAIN common_ancestors |->
                      GetCandidateICValue(common_ancestors[i], node_ids)]
        keep == {i \in DOMAIN common_ancestors : values[i] > 0}
        idx == SetToSeq(keep)
        kept_ancestors == [k \in 1..Len(idx) |-> common_ancestors[idx[k]]]
        kept_values == [k \in 1..Len(idx) |-> values[idx[k]]]
        best_terms == FindSetCovering(kept_ancestors, kept_values, max_num_nodes)
    IN  Returned(CoveredTerms(best_terms) # node_ids, best_terms)

(***************************************************************************)
(* TrimmingAlgorithmLCA                                                    *)
(***************************************************************************)
\* candidates_dict[cid][1] for the candidate list cands
CandCovered(cands, cid) ==
    cands[CHOOSE i \in DOMAIN cands : cands[i].node_id = cid].covered_starting_nodes

\* node_to_cands_map[node]
NodeToCands(cands, node) ==
    {cands[i].node_id : i \in {j \in DOMAIN cands : node \in cands[j].covered_starting_nodes}}

\* lines 205-220: the candidates chosen when cand_id is popped, in list order
LCABestCands(cands, cand_id) ==
    LET all_ids == [i \in DOMAIN cands |-> cands[i].node_id]
        comparable_cands ==
            SelectSeq(all_ids, LAMBDA cid :
                cid # cand_id /\ CandCovered(cands, cand_id) \subseteq CandCovered(cands, cid))
        max_len == MaxOf({Cardinality(CandCovered(cands, c)) : c \in SeqToSet(comparable_cands)})
        by_len == SelectSeq(comparable_cands,
                            LAMBDA c : Cardinality(CandCovered(cands, c)) = max_len)
        deepest == MaxOf({Depth(c) : c \in SeqToSet(by_len)})
        \* a stable sort by depth followed by the selection of the deepest
        best_cands == IF Len(by_len) > 1
                      THEN SelectSeq(by_len, LAMBDA c : Depth(c) = deepest)
                      ELSE by_len
        max_weight == IF Len(by_len) > 1 THEN deepest ELSE Depth(by_len[1])
        own == Cardinality(CandCovered(cands, cand_id))
        other == Cardinality(CandCovered(cands, best_cands[1]))
    IN  IF comparable_cands = <<>> THEN <<cand_id>>
        ELSE IF own > other \/ (own > other /\ Depth(cand_id) > max_weight)
        THEN <<cand_id>>
        ELSE best_cands

\* lines 221-224: the candidates taken out of cands_ids_to_process
LCAProcessed(cands, cand_id) ==
    LET all_ids == {cands[i].node_id : i \in DOMAIN cands}
        comparable == {cid \in all_ids \ {cand_id} :
                          CandCovered(cands, cand_id) \subseteq CandCovered(cands, cid)}
    IN  IF comparable = {} THEN {}
        ELSE UNION {NodeToCands(cands, node) :
                      node \in UNION {CandCovered(cands, b) :
                                         b \in SeqToSet(LCABestCands(cands, cand_id))}}

RECURSIVE LCALoop(_, _, _)
\* lines 203-226.  cands_ids_to_process.pop() takes an arbitrary element of the
\* set, so the loop has one outcome per order of popping: the set of all
\* lists selected_cands_ids the loop can end with.
LCALoop(cands, cands_ids_to_process, selected_cands_ids) ==
    IF cands_ids_to_process = {} THEN {selected_cands_ids}
    ELSE UNION {LCALoop(cands,
                        (cands_ids_to_process \ {cand_id}) \ LCAProcessed(cands, cand_id),
                        selected_cands_ids \o LCABestCands(cands, cand_id))
                : cand_id \in cands_ids_to_process}

\* lines 227-235 for one outcome of the loop
LCAFinish(cands, selected_cands_ids, node_ids, max_num_nodes) ==
    IF Len(selected_cands_ids) <= max_num_nodes
    THEN Returned(FALSE, [i \in DOMAIN selected_cands_ids |->
                             <<selected_cands_ids[i], CandCovered(cands, selected_cands_ids[i])>>])
    ELSE LET best_terms ==
                 FindSetCovering([i \in DOMAIN selected_cands_ids |->
                                     TrimmingCandidate(selected_cands_ids[i],
                                                       CandCovered(cands, selected_cands_ids[i]))],
                                 <<>>, max_num_nodes)
         IN  Returned(CoveredTerms(best_terms) # node_ids, best_terms)

\* every run of TrimmingAlgorithmLCA.trim: the list selected_cands_ids the
\* loop ends with (line 227) and the value returned
LCAOutcomes(node_ids, max_num_nodes) ==
    IF ~Truthy(NodesHaveSameRoot(node_ids))
    THEN {[selected_cands_ids |-> <<>>, result |-> Raised]}
    ELSE LET cands == GetAllTrimmingCandidates(node_ids, trimmer.min_distance_from_root)
         IN  {[selected_cands_ids |-> sel,
               result |-> LCAFinish(cands, sel, node_ids, max_num_nodes)] :
                 sel \in LCALoop(cands, {cands[i].node_id : i \in DOMAIN cands}, <<>>)}

\* every result TrimmingAlgorithmLCA.trim can return
TrimLCA(node_ids, max_num_nodes) ==
    {o.result : o \in LCAOutcomes(node_ids, max_num_nodes)}

(***************************************************************************)
(* TrimmingAlgorithmNaive                                                  *)
(***************************************************************************)
RECURSIVE GetAllPathsToRoot(_, _, _)
\* get_all_paths_to_root: the paths, as tuples of ids, from node_id upwards
GetAllPathsToRoot(node_id, previous_path, root_node) ==
    LET new_path == IF trimmer.nodeids_blacklist = {} \/ node_id \notin trimmer.nodeids_blacklist
                    THEN Append(previous_path, node_id)
                    ELSE previous_path
        deep_enough == {p \in Parents(node_id) : Depth(p) >= trimmer.min_distance_from_root}
        parents == IF root_node # NoValue
                   THEN {p \in deep_enough : NodeRoot(p) # NoValue /\ NodeRoot(p) = root_node}
                   ELSE deep_enough
    IN  IF parents # {}
        THEN UNION {GetAllPathsToRoot(p, new_path, root_node) : p \in parents}
        ELSE IF new_path = <<>> THEN {<<node_id>>} ELSE {new_path}

\* lines 245-261: the data structures after step 1; taken is the history of
\* the pops of line 266: the term, the path popped and the paths the term had
NaiveStart(node_ids) ==
    LET paths(n) == GetAllPathsToRoot(n, <<>>, NodeRoot(n))
        all_paths == UNION {paths(n) : n \in node_ids}
    IN  [term_paths |-> [n \in Nodes |-> IF n \in node_ids THEN paths(n) ELSE {}],
         ancestor_paths |-> [a \in Nodes |-> {p \in all_paths : p[Len(p)] = a}],
         final_terms_set |-> <<>>,
         taken |-> <<>>]

\* term_paths[path[0]].discard(path) for every path of related_paths
DiscardPaths(term_paths, related_paths) ==
    [n \in Nodes |-> term_paths[n] \ {p \in related_paths : p[1] = n}]

\* x[i] of Python for a negative index i
NegIndex(x, i) == x[Len(x) + i + 1]

RECURSIVE NaiveWalk(_, _, _, _)
\* lines 278-288: the inner loop that walks curr_path from its end to its start;
\* w holds curr_path, i, selected_highest_ancestor and the two dictionaries
NaiveWalk(w, related_paths, curr_path, i) ==
    IF Len(curr_path) <= 1 THEN w
    ELSE LET j == i - 1
             curr_highest_ancestor == curr_path[Len(curr_path)]
             rest == SubSeq(curr_path, 1, Len(curr_path) - 1)
         IN  IF ~(\A x \in related_paths : Len(x) >= -j) THEN w
             ELSE IF \A x \in related_paths : NegIndex(x, j) = curr_highest_ancestor
             THEN NaiveWalk([selected |-> curr_highest_ancestor,
                             ancestor_paths |->
                                 [w.ancestor_paths EXCEPT ![curr_highest_ancestor] = {}],
                             term_paths |-> DiscardPaths(w.term_paths, related_paths)],
                            related_paths, rest, j)
             ELSE NaiveWalk(w, related_paths, rest, j)

\* final_terms_set[key] = covered: a dictionary keeps the place of a key it has
PutTerm(final_terms_set, key, covered) ==
    IF \E i \in DOMAIN final_terms_set : final_terms_set[i][1] = key
    THEN [i \in DOMAIN final_terms_set |->
             IF final_terms_set[i][1] = key THEN <<key, covered>> ELSE final_terms_set[i]]
    ELSE Append(final_terms_set, <<key, covered>>)

\* lines 266-291 for the path popped from term_paths_copy; stop is TRUE
\* when the loop is left at line 270
NaiveTake(st, path) ==
    LET highest == path[Len(path)]
        curr_path == SubSeq(path, 1, Len(path) - 1)
        related_paths == st.ancestor_paths[highest]
        covered_nodes_set == {p[1] : p \in related_paths}
        w0 == [selected |-> highest,
               ancestor_paths |-> [st.ancestor_paths EXCEPT ![highest] = {}],
               term_paths |-> st.term_paths]
        w == IF curr_path = <<>> THEN w0
             ELSE IF \A x \in related_paths : x[1] = curr_path[1]
             THEN [w0 EXCEPT !.selected = curr_path[1]]
             ELSE NaiveWalk(w0, related_paths, curr_path, -1)
    IN  IF related_paths = {} THEN [stop |-> TRUE, st |-> st]
        ELSE [stop |-> FALSE,
              st |-> [term_paths |-> DiscardPaths(w.term_paths, related_paths),
                      ancestor_paths |-> w.ancestor_paths,
                      final_terms_set |->
                          PutTerm(st.final_terms_set, w.selected, covered_nodes_set),
                      taken |-> st.taken]]

\* the paths term_paths_copy.pop() can return: the last of the list sorted by
\* length the first time (any of the longest paths), any element of the set
\* copy afterwards
NaivePopChoices(st, node_id, first) ==
    LET mine == st.term_paths[node_id]
    IN  IF first /\ mine # {}
        THEN {p \in mine : Len(p) = MaxOf({Len(q) : q \in mine})}
        ELSE mine

RECURSIVE NaiveWhile(_, _, _)
\* lines 264-295 for one term: every state the loop can end in
NaiveWhile(st, node_id, first) ==
    IF st.term_paths[node_id] = {} THEN {st}
    ELSE UNION {LET popped == [node_id |-> node_id, path |-> path,
                               term_paths |-> st.term_paths[node_id]]
                    r == NaiveTake([st EXCEPT !.taken = Append(@, popped)], path)
                IN  IF r.stop THEN {r.st} ELSE NaiveWhile(r.st, node_id, FALSE)
                : path \in NaivePopChoices(st, node_id, first)}

RECURSIVE NaiveMerge(_, _)
\* line 263: the terms in sorted order
NaiveMerge(states, todo) ==
    IF todo = <<>> THEN states
    ELSE NaiveMerge(UNION {NaiveWhile(st, Head(todo), TRUE) : st \in states}, Tail(todo))

\* lines 296-304 for one outcome of step 2
NaiveFinish(final_terms_set, node_ids, max_num_nodes) ==
    IF Len(final_terms_set) <= max_num_nodes
    THEN Returned(FALSE, final_terms_set)
    ELSE LET best_terms ==
                 FindSetCovering([i \in DOMAIN final_terms_set |->
                                     TrimmingCandidate(final_terms_set[i][1],
                                                       final_terms_set[i][2])],
                                 <<>>, max_num_nodes)
         IN  Returned(CoveredTerms(best_terms) # node_ids, best_terms)

\* every run of TrimmingAlgorithmNaive.trim: the history of the pops and the
\* value returned
NaiveOutcomes(node_ids, max_num_nodes) ==
    {[taken |-> st.taken,
      result |-> NaiveFinish(st.final_terms_set, node_ids, max_num_nodes)] :
        st \in NaiveMerge({NaiveStart(node_ids)}, SetToSeq(node_ids))}

\* every result TrimmingAlgorithmNaive.trim can return
TrimNaive(node_ids, max_num_nodes) ==
    {o.result : o \in NaiveOutcomes(node_ids, max_num_nodes)}

(***************************************************************************)
(* The ontologies and trimmer settings of the model.  Every DAG on         *)
(* 1..NumNodes whose edges lead from a term to a term of smaller id; all   *)
(* terms are in namespace "a" with information content 1, no blacklist     *)
(* and no slim set, except for at most MaxDeviations deviations.           *)
(***************************************************************************)
RECURSIVE DAGsOn(_)
DAGsOn(n) ==
    IF n = 0 THEN {<<>>}
    ELSE {Append(par, P) : par \in DAGsOn(n - 1), P \in SUBSET (1..(n - 1))}

DAGs == DAGsOn(NumNodes)

DeviationKinds == {"namespace", "nonamespace", "blacklist", "ic0", "ichigh", "slim"}

RECURSIVE SubsetsUpTo(_, _)
\* the subsets of S with at most k elements
SubsetsUpTo(S, k) ==
    IF k = 0 THEN {{}}
    ELSE LET smaller == SubsetsUpTo(S, k - 1)
         IN  smaller \cup {T \cup {x} : T \in smaller, x \in S}

DeviationSets == SubsetsUpTo(DeviationKinds \X Nodes, MaxDeviations)

OntologyOf(par, D) ==
    [parents |-> par,
     ancestors |-> [n \in Nodes |-> AncestorsIn(par, n)],
     depth |-> [n \in Nodes |-> DepthIn(par, n)],
     namespace |-> [n \in Nodes |->
                       IF <<"namespace", n>> \in D THEN "b"
                       ELSE IF <<"nonamespace", n>> \in D THEN NoValue
                       ELSE "a"],
     IC |-> [n \in Nodes |->
                IF <<"ic0", n>> \in D THEN 0
                ELSE IF <<"ichigh", n>> \in D THEN MaxIC
                ELSE 1]]

\* TrimmingAlgorithm.__init__ and TrimmingAlgorithmIC.__init__
TrimmerOf(dist, D) ==
    [min_distance_from_root |-> dist,
     nodeids_blacklist |-> {n \in Nodes : <<"blacklist", n>> \in D},
     slim_set |-> {n \in Nodes : <<"slim", n>> \in D},
     slim_terms_ic_bonus_perc |-> IF \E n \in Nodes : <<"slim", n>> \in D THEN 1 ELSE 0]

NoCall == [op |-> "none"]

NoFSC == [pc |-> "idle"]

NoGMS == [pc |-> "idle"]

Init ==
    /\ \E par \in DAGs, D \in DeviationSets, dist \in 0..MaxDist :
          /\ ontology = OntologyOf(par, D)
          /\ trimmer = TrimmerOf(dist, D)
    /\ call = NoCall
    /\ ret = NoValue
    /\ fsc = NoFSC
    /\ gms = NoGMS
    /\ generator = NoValue

(***************************************************************************)
(* The trimming calls: trim(node_ids, max_num_nodes) of the three          *)
(* algorithms on a non-empty set of terms with a positive cap.             *)
(***************************************************************************)
TermSets == (SUBSET Nodes) \ {{}}

TrimCall(op, node_ids, max_num_nodes) ==
    [op |-> op, node_ids |-> node_ids, max_num_nodes |-> max_num_nodes]

CallTrimIC ==
    /\ call = NoCall
    /\ \E node_ids \in TermSets, max_num_nodes \in 1..MaxCap :
          /\ call' = TrimCall("trim_ic", node_ids, max_num_nodes)
          /\ ret' = TrimIC(node_ids, max_num_nodes)
    /\ UNCHANGED <<ontology, trimmer, fsc, generator, gms>>

\* the call keeps the local list selected_cands_ids of the run
CallTrimLCA ==
    /\ call = NoCall
    /\ \E node_ids \in TermSets, max_num_nodes \in 1..MaxCap :
          \E o \in LCAOutcomes(node_ids, max_num_nodes) :
             /\ call' = [op |-> "trim_lca", node_ids |-> node_ids,
                         max_num_nodes |-> max_num_nodes,
                         selected_cands_ids |-> o.selected_cands_ids]
             /\ ret' = o.result
    /\ UNCHANGED <<ontology, trimmer, fsc, generator, gms>>

\* the call keeps the history of the pops of the run
CallTrimNaive ==
    /\ call = NoCall
    /\ \E node_ids \in TermSets, max_num_nodes \in 1..MaxCap :
          \E o \in NaiveOutcomes(node_ids, max_num_nodes) :
             /\ call' = [op |-> "trim_naive", node_ids |-> node_ids,
                         max_num_nodes |-> max_num_nodes, taken |-> o.taken]
             /\ ret' = o.result
    /\ UNCHANGED <<ontology, trimmer, fsc, generator, gms>>

NextTrim == CallTrimIC \/ CallTrimLCA \/ CallTrimNaive

SpecTrim == Init /\ [][NextTrim]_vars

(***************************************************************************)
(* find_set_covering, one loop iteration at a time, on the candidates of   *)
(* a term set with any weights (None or one weight per candidate) and any  *)
(* cap (0 stands for None).                                                *)
(***************************************************************************)
InitFSC ==
    /\ \E par \in DAGs :
          /\ ontology = OntologyOf(par, {})
          /\ trimmer = TrimmerOf(0, {})
    /\ call = NoCall
    /\ ret = <<>>          \* a list, as every value find_set_covering returns
    /\ fsc = NoFSC
    /\ gms = NoGMS
    /\ generator = NoValue

\* the values a caller passes: None, or one positive weight for each subset
\* (TrimmingAlgorithmIC.trim drops the candidates of value 0, lines 181-182)
WeightLists(n) == {<<>>} \cup [1..n -> 1..MaxWeight]

FSCCall ==
    /\ call = NoCall
    /\ \E node_ids \in TermSets, max_num_subsets \in 0..MaxCap :
          LET subsets == GetAllTrimmingCandidates(node_ids, trimmer.min_distance_from_root)
          IN  \E value \in WeightLists(Len(subsets)) :
                 /\ call' = [op |-> "find_set_covering", node_ids |-> node_ids,
                             subsets |-> subsets, value |-> value,
                             max_num_subsets |-> max_num_subsets]
                 /\ fsc' = [pc |-> "loop", f |-> FSCStart(subsets, value, max_num_subsets)]
    /\ UNCHANGED <<ontology, trimmer, ret, generator, gms>>

FSCStep ==
    /\ fsc.pc = "loop"
    /\ FSCContinue(fsc.f)
    /\ fsc' = [fsc EXCEPT !.f = FSCIterate(fsc.f)]
    /\ UNCHANGED <<ontology, trimmer, call, ret, generator, gms>>

FSCReturn ==
    /\ fsc.pc = "loop"
    /\ ~FSCContinue(fsc.f)
    /\ fsc' = [fsc EXCEPT !.pc = "done"]
    /\ ret' = fsc.f.included_sets
    /\ UNCHANGED <<ontology, trimmer, call, generator, gms>>

NextFSC == FSCCall \/ FSCStep \/ FSCReturn

SpecFSC == InitFSC /\ [][NextFSC]_vars

\* the call runs to its end: an iteration that can be made is made, and the
\* return that can be made is made
FSCProgress ==
    /\ fsc.pc = "loop"
    /\ fsc' = IF FSCContinue(fsc.f) THEN [fsc EXCEPT !.f = FSCIterate(fsc.f)]
              ELSE [fsc EXCEPT !.pc = "done"]

SpecFSCFair == SpecFSC /\ WF_fsc(FSCProgress)

(***************************************************************************)
(* OntologySentenceGenerator: the term reduction pipeline.                 *)
(* Lists of terms are sequences.  A list made from a Python set has no     *)
(* defined order: where the order decides which terms survive (the         *)
(* truncation at line 237) every order is an outcome, elsewhere the list   *)
(* is taken in ascending order.  An empty high_priority_terms stands for   *)
(* None as well (both are false in the tests the code makes).              *)
(***************************************************************************)
RECURSIVE Orderings(_)
\* every list that holds the elements of S once
Orderings(S) ==
    IF S = {} THEN {<<>>}
    ELSE UNION {{<<x>> \o rest : rest \in Orderings(S \ {x})} : x \in S}

\* every result the configured trimming algorithm can return (get_best_nodes
\* builds the algorithm object named by trimming_algorithm)
Trim(node_ids, max_num_nodes) ==
    IF generator.trimming_algorithm = "ic" THEN {TrimIC(node_ids, max_num_nodes)}
    ELSE IF generator.trimming_algorithm = "lca" THEN TrimLCA(node_ids, max_num_nodes)
    ELSE TrimNaive(node_ids, max_num_nodes)

\* get_best_nodes (genedescriptions/ontology_tools.py): trims the terms with
\* the configured algorithm, adds every covered term to terms_already_covered
\* and the labels of the selected terms that cover several terms to
\* ancestors_covering_multiple_children, and returns the selected ids with
\* the boolean of trim as add_others
GetBestNodes(terms, max_terms, terms_already_covered, ancestors_covering_multiple_children) ==
    {IF r.raised
     THEN [raised |-> TRUE, terms |-> <<>>, add_others |-> FALSE,
           covered |-> terms_already_covered, acmc |-> ancestors_covering_multiple_children]
     ELSE [raised |-> FALSE,
           terms |-> [i \in DOMAIN r.best_terms |-> r.best_terms[i][1]],
           add_others |-> r.trimmed,
           covered |-> terms_already_covered \cup CoveredTerms(r.best_terms),
           acmc |-> IF generator.add_mul_common_anc
                    THEN ancestors_covering_multiple_children \cup
                         {Label(r.best_terms[i][1]) :
                             i \in {j \in DOMAIN r.best_terms : Cardinality(r.best_terms[j][2]) > 1}}
                    ELSE ancestors_covering_multiple_children]
     : r \in Trim(SeqToSet(terms), max_terms)}

\* remove_children_if_parents_present; use_acmc is FALSE when the caller
\* passes None for ancestors_covering_multiple_children
RemoveChildrenIfParentsPresent(terms, terms_already_covered, high_priority_terms, ancestors_covering_multiple_children, use_acmc) ==
    LET term_set == SeqToSet(terms)
        kept(t) == \/ Ancestors(t, FALSE) \cap term_set = {}
                   \/ (high_priority_terms # {} /\ t \in high_priority_terms)
        terms_nochildren == SelectSeq(terms, kept)
        removed == term_set \ SeqToSet(terms_nochildren)
        labels == {Label(a) : a \in UNION {Ancestors(t, FALSE) \cap term_set :
                                              t \in {u \in term_set : ~kept(u)}}}
    IN  [terms |-> IF Len(terms_nochildren) < Len(terms) THEN terms_nochildren ELSE terms,
         covered |-> IF Len(terms_nochildren) < Len(terms)
                     THEN terms_already_covered \cup removed
                     ELSE terms_already_covered,
         acmc |-> IF use_acmc THEN ancestors_covering_multiple_children \cup labels
                  ELSE ancestors_covering_multiple_children,
         removed |-> removed]

\* RemoveParentsIfChildPresent that overwrites terms_already_covered with the
\* terms removed
RemoveParentsCoveredOverwritten(terms, terms_already_covered, high_priority_terms) ==
    LET ancestors == {a \in UNION {Ancestors(n, FALSE) : n \in terms} :
                         high_priority_terms = {} \/ a \notin high_priority_terms}
        terms_no_ancestors == terms \ ancestors
        fewer == Cardinality(terms) > Cardinality(terms_no_ancestors)
    IN  [terms |-> IF fewer THEN terms_no_ancestors ELSE terms,
         covered |-> IF fewer THEN terms \ terms_no_ancestors ELSE terms_already_covered,
         removed |-> terms \ terms_no_ancestors]

\* RemoveParentsIfChildPresent that removes the high priority ancestors too
RemoveParentsOfAnyPriority(terms, terms_already_covered, high_priority_terms) ==
    LET ancestors == UNION {Ancestors(n, FALSE) : n \in terms}
        terms_no_ancestors == terms \ ancestors
        fewer == Cardinality(terms) > Cardinality(terms_no_ancestors)
    IN  [terms |-> IF fewer THEN terms_no_ancestors ELSE terms,
         covered |-> IF fewer THEN terms_already_covered \cup (terms \ terms_no_ancestors)
                     ELSE terms_already_covered,
         removed |-> terms \ terms_no_ancestors]

\* RemoveParentsIfChildPresent that leaves terms_already_covered as it is
RemoveParentsUnrecorded(terms, terms_already_covered, high_priority_terms) ==
    LET ancestors == {a \in UNION {Ancestors(n, FALSE) : n \in terms} :
                         high_priority_terms = {} \/ a \notin high_priority_terms}
        terms_no_ancestors == terms \ ancestors
        fewer == Cardinality(terms) > Cardinality(terms_no_ancestors)
    IN  [terms |-> IF fewer THEN terms_no_ancestors ELSE terms,
         covered |-> terms_already_covered,
         removed |-> terms \ terms_no_ancestors]

\* remove_parents_if_child_present, on the set of terms
RemoveParentsIfChildPresent(terms, terms_already_covered, high_priority_terms) ==
    LET ancestors == {a \in UNION {Ancestors(n, FALSE) : n \in terms} :
                         high_priority_terms = {} \/ a \notin high_priority_terms}
        terms_no_ancestors == terms \ ancestors
        fewer == Cardinality(terms) > Cardinality(terms_no_ancestors)
    IN  [terms |-> IF fewer THEN terms_no_ancestors ELSE terms,
         covered |-> IF fewer THEN terms_already_covered \cup (terms \ terms_no_ancestors)
                     ELSE terms_already_covered,
         removed |-> terms \ terms_no_ancestors]

\* lines 204-220: the high priority terms, for one order hp of the list
\* terms_high_priority
TrimHighPriority(hp, terms_already_covered) ==
    LET max_terms == generator.max_terms
        rc == IF Len(hp) > max_terms
              THEN RemoveChildrenIfParentsPresent(hp, terms_already_covered, {}, {},
                                                  generator.add_mul_common_anc)
              ELSE [terms |-> hp, covered |-> terms_already_covered, acmc |-> {},
                    removed |-> {}]
    IN  IF Len(rc.terms) > max_terms
        THEN GetBestNodes(rc.terms, max_terms, rc.covered, rc.acmc)
        ELSE {[raised |-> FALSE, terms |-> rc.terms, add_others |-> FALSE,
               covered |-> rc.covered \cup SeqToSet(rc.terms), acmc |-> rc.acmc]}

\* lines 221-231: the low priority terms, after the high priority outcome h
TrimLowPriority(h, low) ==
    LET trimming_threshold == generator.max_terms - Len(h.terms)
    IN  IF 0 < trimming_threshold /\ trimming_threshold < Cardinality(low)
        THEN GetBestNodes(SetToSeq(low), trimming_threshold, h.covered, h.acmc)
        ELSE {[raised |-> FALSE, terms |-> SetToSeq(low),
               add_others |-> (trimming_threshold <= 0 /\ 0 < Cardinality(low)),
               covered |-> h.covered, acmc |-> h.acmc]}

\* JoinAndCut with the low priority terms put first
JoinLowFirstAndCut(h, l) ==
    IF h.raised \/ l.raised
    THEN {[raised |-> TRUE, terms |-> <<>>, add_others |-> FALSE,
           covered |-> l.covered, acmc |-> l.acmc]}
    ELSE {[raised |-> FALSE,
           terms |-> Prefix(rest \o h.terms, generator.max_terms),
           add_others |-> (h.add_others \/ l.add_others),
           covered |-> l.covered, acmc |-> l.acmc]
          : rest \in Orderings(SeqToSet(l.terms) \ SeqToSet(h.terms))}

\* JoinAndCut without the cut to max_terms
JoinUncut(h, l) ==
    IF h.raised \/ l.raised
    THEN {[raised |-> TRUE, terms |-> <<>>, add_others |-> FALSE,
           covered |-> l.covered, acmc |-> l.acmc]}
    ELSE {[raised |-> FALSE,
           terms |-> h.terms \o rest,
           add_others |-> (h.add_others \/ l.add_others),
           covered |-> l.covered, acmc |-> l.acmc]
          : rest \in Orderings(SeqToSet(l.terms) \ SeqToSet(h.terms))}

\* lines 232-238: high priority terms first, then the low priority terms that
\* are not among them, in any order, cut to max_terms
JoinAndCut(h, l) ==
    IF h.raised \/ l.raised
    THEN {[raised |-> TRUE, terms |-> <<>>, add_others |-> FALSE,
           covered |-> l.covered, acmc |-> l.acmc]}
    ELSE {[raised |-> FALSE,
           terms |-> Prefix(h.terms \o rest, generator.max_terms),
           add_others |-> (h.add_others \/ l.add_others),
           covered |-> l.covered, acmc |-> l.acmc]
          : rest \in Orderings(SeqToSet(l.terms) \ SeqToSet(h.terms))}

\* get_trimmed_terms_by_common_ancestor: every outcome of the call
GetTrimmedTermsByCommonAncestor(terms, terms_already_covered, high_priority_terms) ==
    LET high == {t \in terms : high_priority_terms # {} /\ t \in high_priority_terms}
        low == {t \in terms : high_priority_terms = {} \/ t \notin high_priority_terms}
    IN  UNION {UNION {IF h.raised THEN JoinAndCut(h, h)
                      ELSE UNION {JoinAndCut(h, l) : l \in TrimLowPriority(h, low)}
                      : h \in TrimHighPriority(hp, terms_already_covered)}
               : hp \in Orderings(high)}

\* reduce_terms: every outcome of the call.  covered is terms_already_covered
\* when the call ends; excluded, after_exclusion, removed_parents, entering
\* and removed_children record what the steps did to the term set.
ReduceTerms(terms, high_priority_term_ids) ==
    LET t1 == IF generator.del_overlap THEN terms \ generator.terms_already_covered ELSE terms
        t2 == IF generator.exclude_terms # {} THEN t1 \ generator.exclude_terms ELSE t1
        p == IF generator.remove_parents
             THEN RemoveParentsIfChildPresent(t2, generator.terms_already_covered,
                                              high_priority_term_ids)
             ELSE [terms |-> t2, covered |-> generator.terms_already_covered, removed |-> {}]
        trimmed == 0 < generator.max_terms /\ generator.max_terms < Cardinality(p.terms)
        step4 == IF trimmed
                 THEN GetTrimmedTermsByCommonAncestor(p.terms, p.covered, high_priority_term_ids)
                 ELSE {[raised |-> FALSE, terms |-> SetToSeq(p.terms), add_others |-> FALSE,
                        covered |-> p.covered \cup p.terms, acmc |-> {}]}
        step5(o) == IF generator.remove_child_terms /\ ~o.raised
                    THEN RemoveChildrenIfParentsPresent(o.terms, o.covered,
                                                        high_priority_term_ids, o.acmc,
                                                        generator.add_mul_common_anc)
                    ELSE [terms |-> o.terms, covered |-> o.covered, acmc |-> o.acmc,
                          removed |-> {}]
    IN  {[raised |-> o.raised,
          terms |-> step5(o).terms,
          trimmed |-> trimmed,
          add_others |-> o.add_others,
          ancestors_covering_multiple_children |-> step5(o).acmc,
          covered |-> step5(o).covered,
          excluded |-> t1 \ t2,
          after_exclusion |-> t2,
          removed_parents |-> p.removed,
          entering |-> p.terms,
          after_trimming |-> o.terms,
          removed_children |-> step5(o).removed]
         : o \in step4}

(***************************************************************************)
(* The generators of the model: every ontology without deviations, each    *)
(* trimming algorithm, a positive max_terms, child removal on or off, and  *)
(* at most MaxDeviations deviations from the setting with overlap removal, *)
(* parent removal and add_multiple_to_common_ancestor on, no excluded term *)
(* and no term covered by an earlier evidence group.                       *)
(* get_best_nodes gives the trimming algorithm the distance                *)
(* dist_root[aspect] and the excluded terms as its blacklist; calls are    *)
(* made for aspect P.                                                      *)
(***************************************************************************)
GeneratorDeviationSets ==
    SubsetsUpTo(({"exclude", "covered"} \X Nodes)
                    \cup {<<"no_add_mul", 1>>, <<"no_del_overlap", 1>>,
                          <<"no_remove_parents", 1>>},
                MaxDeviations)

TrimmingAlgorithms == {"ic", "lca", "naive"}

\* line 203
DefaultDistRoot == [F |-> 1, P |-> 1, C |-> 2, D |-> 3, A |-> 3]

\* OntologySentenceGenerator.__init__, lines 86-107
GeneratorOf(algo, max_terms, remove_child_terms, G) ==
    [del_overlap |-> <<"no_del_overlap", 1>> \notin G,
     remove_parents |-> <<"no_remove_parents", 1>> \notin G,
     remove_child_terms |-> remove_child_terms,
     max_terms |-> max_terms,
     exclude_terms |-> {n \in Nodes : <<"exclude", n>> \in G},
     add_mul_common_anc |-> <<"no_add_mul", 1>> \notin G,
     trimming_algorithm |-> algo,
     dist_root |-> DefaultDistRoot,
     terms_already_covered |->
         {n \in Nodes : <<"covered", n>> \in G /\ <<"exclude", n>> \notin G}]

InitReduce ==
    /\ \E par \in DAGs, algo \in TrimmingAlgorithms, max_terms \in 1..MaxCap,
          remove_child_terms \in BOOLEAN, G \in GeneratorDeviationSets :
          /\ ontology = OntologyOf(par, {})
          /\ generator = GeneratorOf(algo, max_terms, remove_child_terms, G)
          /\ trimmer = [min_distance_from_root |-> DefaultDistRoot.P,
                        nodeids_blacklist |-> {n \in Nodes : <<"exclude", n>> \in G},
                        slim_set |-> {},
                        slim_terms_ic_bonus_perc |-> 0]
    /\ call = NoCall
    /\ ret = NoValue
    /\ fsc = NoFSC
    /\ gms = NoGMS

\* reduce_terms(terms, aspect, high_priority_term_ids) on the terms of one
\* evidence group
CallReduceTerms ==
    /\ call = NoCall
    /\ \E terms \in TermSets :
          \E high_priority_term_ids \in SUBSET terms :
             \E o \in ReduceTerms(terms, high_priority_term_ids) :
                /\ call' = [op |-> "reduce_terms", terms |-> terms, aspect |-> "P",
                            high_priority_term_ids |-> high_priority_term_ids]
                /\ ret' = o
                /\ generator' = [generator EXCEPT !.terms_already_covered = o.covered]
    /\ UNCHANGED <<ontology, trimmer, fsc, gms>>

NextReduce == CallReduceTerms

SpecReduce == InitReduce /\ [][NextReduce]_vars

(***************************************************************************)
(* Text: a Python string is the sequence of its characters.                *)
(***************************************************************************)
MaxLen == 3            \* longest postfix phrase drawn
MaxPhrases == 3        \* longest list of postfix phrases drawn

Chars == {"u", "v", " "}

RECURSIVE StringsUpTo(_)
StringsUpTo(n) ==
    IF n = 0 THEN {<<>>}
    ELSE LET shorter == StringsUpTo(n - 1)
         IN  shorter \cup {Append(t, c) : t \in {x \in shorter : Len(x) = n - 1}, c \in Chars}

RECURSIVE ListsUpTo(_, _)
ListsUpTo(S, n) ==
    IF n = 0 THEN {<<>>}
    ELSE LET shorter == ListsUpTo(S, n - 1)
         IN  shorter \cup {Append(l, x) : l \in {y \in shorter : Len(y) = n - 1}, x \in S}

RECURSIVE Concat(_)
\* "".join(parts)
Concat(parts) == IF parts = <<>> THEN <<>> ELSE Head(parts) \o Concat(Tail(parts))

RECURSIVE Join(_, _)
\* sep.join(parts)
Join(sep, parts) ==
    IF parts = <<>> THEN <<>>
    ELSE IF Len(parts) = 1 THEN parts[1]
    ELSE parts[1] \o sep \o Join(sep, Tail(parts))

RECURSIVE Replace(_, _)
\* str.replace(old, ""): every occurrence of old, found from the left, is cut
\* out; an empty old leaves the string as it is
Replace(str, old) ==
    IF old = <<>> \/ Len(str) < Len(old) THEN str
    ELSE IF SubSeq(str, 1, Len(old)) = old
    THEN Replace(SubSeq(str, Len(old) + 1, Len(str)), old)
    ELSE <<str[1]>> \o Replace(Tail(str), old)

RECURSIVE Strip(_)
\* str.strip()
Strip(str) ==
    IF str = <<>> THEN str
    ELSE IF str[1] = " " THEN Strip(Tail(str))
    ELSE IF str[Len(str)] = " " THEN Strip(SubSeq(str, 1, Len(str) - 1))
    ELSE str

\* len(str.split(" ")): one part more than the string has blanks
SplitCount(str) == 1 + Cardinality({i \in DOMAIN str : str[i] = " "})

\* inflect.engine().plural(text): text without a word is returned as it is;
\* otherwise the word between the leading and trailing blanks is put in the
\* plural, here by the rule of the regular nouns (an s is appended)
Plural(text) ==
    IF Strip(text) = <<>> THEN text
    ELSE LET last == MaxOf({i \in DOMAIN text : text[i] # " "})
         IN  SubSeq(text, 1, last) \o <<"s">> \o SubSeq(text, last + 1, Len(text))

(***************************************************************************)
(* OntologySentenceGenerator.merge_postfix_phrases                         *)
(***************************************************************************)
\* line 344
NonEmptyPhrases(postfix_phrases) == SelectSeq(postfix_phrases, LAMBDA ph : ph # <<>>)

\* lines 348-349: the first of the phrases of least length (the sort is stable)
ShortestPhrase(phrases) ==
    phrases[MinOf({i \in DOMAIN phrases :
                      \A j \in DOMAIN phrases : Len(phrases[i]) <= Len(phrases[j])})]

\* lines 350-355: the characters all phrases share from the start
FirstPart(phrases) ==
    LET shortest_phrase == ShortestPhrase(phrases)
        agree(idx) == \A i \in DOMAIN phrases : phrases[i][idx] = shortest_phrase[idx]
        n == MaxOf({k \in 0..Len(shortest_phrase) : \A idx \in 1..k : agree(idx)})
    IN  SubSeq(shortest_phrase, 1, n)

\* lines 356-362: the characters all phrases share from the end
LastPart(phrases) ==
    LET shortest_phrase == ShortestPhrase(phrases)
        agree(idx) == \A i \in DOMAIN phrases :
                         phrases[i][Len(phrases[i]) - idx] =
                             shortest_phrase[Len(shortest_phrase) - idx]
        n == MaxOf({k \in 0..Len(shortest_phrase) : \A idx \in 0..(k - 1) : agree(idx)})
    IN  SubSeq(shortest_phrase, Len(shortest_phrase) - n + 1, Len(shortest_phrase))

\* line 363
NewPhrases(phrases) ==
    [i \in DOMAIN phrases |-> Replace(Replace(phrases[i], FirstPart(phrases)), LastPart(phrases))]

\* lines 364-365
PluralLastPart(phrases) ==
    IF SplitCount(Strip(LastPart(phrases))) = 1 THEN Plural(LastPart(phrases))
    ELSE LastPart(phrases)

CommaSpace == <<",", " ">>

And == <<" ", "a", "n", "d", " ">>

CommaAnd == <<",", " ", "a", "n", "d", " ">>

\* JoinPhrases that joins more than two fragments like two
JoinPhrasesWithAnd(first_part, new_phrases, last_part) ==
    IF Len(new_phrases) > 1
    THEN first_part \o Join(And, new_phrases) \o last_part
    ELSE first_part \o new_phrases[1] \o last_part

\* lines 366-371
JoinPhrases(first_part, new_phrases, last_part) ==
    IF Len(new_phrases) > 2
    THEN first_part \o Join(CommaSpace, SubSeq(new_phrases, 1, Len(new_phrases) - 1))
            \o CommaAnd \o new_phrases[Len(new_phrases)] \o last_part
    ELSE IF Len(new_phrases) > 1
    THEN first_part \o Join(And, new_phrases) \o last_part
    ELSE first_part \o new_phrases[1] \o last_part

MergePostfixPhrases(postfix_phrases) ==
    LET phrases == NonEmptyPhrases(postfix_phrases)
    IN  IF Len(phrases) = 0 THEN <<>>
        ELSE IF Len(phrases) = 1 THEN phrases[1]
        ELSE JoinPhrases(FirstPart(phrases), NewPhrases(phrases), PluralLastPart(phrases))

(***************************************************************************)
(* merge_postfix_phrases on every list of at most MaxPhrases phrases of at *)
(* most MaxLen characters, and on the three phrases "located in the X",    *)
(* "located in the Y", "located in the Z".                                 *)
(***************************************************************************)
LocatedInThe == <<"l", "o", "c", "a", "t", "e", "d", " ", "i", "n", " ", "t", "h", "e", " ">>

LocatedXYZ == <<LocatedInThe \o <<"X">>, LocatedInThe \o <<"Y">>, LocatedInThe \o <<"Z">>>>

PhraseLists == ListsUpTo(StringsUpTo(MaxLen), MaxPhrases) \cup {LocatedXYZ}

InitPhrases ==
    /\ ontology = NoValue
    /\ trimmer = NoValue
    /\ generator = NoValue
    /\ call = NoCall
    /\ ret = NoValue
    /\ fsc = NoFSC
    /\ gms = NoGMS

CallMergePostfixPhrases ==
    /\ call = NoCall
    /\ \E postfix_phrases \in PhraseLists :
          /\ call' = [op |-> "merge_postfix_phrases", postfix_phrases |-> postfix_phrases]
          /\ ret' = MergePostfixPhrases(postfix_phrases)
    /\ UNCHANGED <<ontology, trimmer, fsc, generator, gms>>

NextPhrases == CallMergePostfixPhrases

SpecPhrases == InitPhrases /\ [][NextPhrases]_vars

(***************************************************************************)
(* Sentences.  The templates of generator.prepostfix_sentences_map are     *)
(* keyed by evidence group (one aspect, empty qualifier).                  *)
(***************************************************************************)
EvidenceGroups == {"EXPERIMENTAL", "PREDICTED"}

Aspect == "P"

PrefixA == <<"i", "s", " ">>

PrefixB == <<"i", "n", " ">>

PostfixP == <<" ", "u", "v">>

PostfixQ == <<" ", "v", "v">>

\* ontology.label(node, id_if_null=True) as text
LabelText(n) == <<ToString(Label(n))>>

\* sentence_generation_functions.compose_sentence
ComposeSentence(prefix, term_names, postfix) ==
    prefix \o Join(CommaSpace, term_names) \o postfix

\* sentence_generation_functions._get_single_sentence
GetSingleSentence(node_ids, evidence_group, trimmed) ==
    LET template == generator.prepostfix_sentences_map[evidence_group]
    IN  [prefix |-> template[1],
         terms_ids |-> SetToSeq(node_ids),
         postfix |-> template[2],
         text |-> ComposeSentence(template[1],
                                  [i \in 1..Cardinality(node_ids) |-> LabelText(SetToSeq(node_ids)[i])],
                                  template[2]),
         aspect |-> Aspect,
         evidence_group |-> <<evidence_group>>,
         terms_merged |-> FALSE,
         trimmed |-> trimmed,
         additional_prefix |-> <<>>,
         qualifier |-> <<>>,
         ancestors_covering_multiple_terms |-> {}]

(***************************************************************************)
(* OntologySentenceGenerator.merge_sentences_with_same_prefix              *)
(***************************************************************************)
\* the template of a sentence (lines 290-293); a sentence made by
\* _get_single_sentence names one evidence group
TemplateOf(sentence) == generator.prepostfix_sentences_map[sentence.evidence_group[1]]

\* the keys of merged_sentences in the order of their insertion
MergedPrefixes(sentences) ==
    LET first(i) == \A j \in 1..(i - 1) : TemplateOf(sentences[j])[1] # TemplateOf(sentences[i])[1]
        idx == SetToSeq({i \in DOMAIN sentences : first(i)})
    IN  [k \in DOMAIN idx |-> TemplateOf(sentences[idx[k]])[1]]

\* lines 289-307: the SentenceMerger of one prefix
MergerOf(sentences, prefix) ==
    LET idx == SetToSeq({i \in DOMAIN sentences : TemplateOf(sentences[i])[1] = prefix})
        additional == {i \in DOMAIN idx : sentences[idx[i]].additional_prefix # <<>>}
    IN  [postfix_list |-> [k \in DOMAIN idx |-> TemplateOf(sentences[idx[k]])[2]],
         terms_ids |-> UNION {SeqToSet(sentences[idx[k]].terms_ids) : k \in DOMAIN idx},
         evidence_groups |-> Concat([k \in DOMAIN idx |-> sentences[idx[k]].evidence_group]),
         additional_prefix |-> IF additional = {} THEN <<>>
                               ELSE sentences[idx[MaxOf(additional)]].additional_prefix,
         aspect |-> sentences[idx[Len(idx)]].aspect,
         qualifier |-> sentences[idx[Len(idx)]].qualifier,
         ancestors_covering_multiple_terms |->
             UNION {sentences[idx[k]].ancestors_covering_multiple_terms : k \in DOMAIN idx},
         any_trimmed |-> \E k \in DOMAIN idx : sentences[idx[k]].trimmed]

\* lines 308-317
MergerWithoutParents(sent_merger, high_priority_term_ids) ==
    LET ancestors == {ancestor \in Nodes :
                        /\ \E node_id \in sent_merger.terms_ids : ancestor \in Ancestors(node_id, FALSE)
                        /\ high_priority_term_ids = {} \/ ancestor \notin high_priority_term_ids}
    IN  [sent_merger EXCEPT !.terms_ids = sent_merger.terms_ids \ ancestors]

\* lines 318-332: the sentence of one SentenceMerger
MergedSentence(prefix, sent_merger) ==
    [prefix |-> prefix,
     terms_ids |-> SetToSeq(sent_merger.terms_ids),
     postfix |-> MergePostfixPhrases(sent_merger.postfix_list),
     text |-> ComposeSentence(prefix,
                              [i \in 1..Cardinality(sent_merger.terms_ids) |->
                                   LabelText(SetToSeq(sent_merger.terms_ids)[i])],
                              MergePostfixPhrases(sent_merger.postfix_list)),
     aspect |-> sent_merger.aspect,
     evidence_group |-> sent_merger.evidence_groups,
     terms_merged |-> TRUE,
     trimmed |-> sent_merger.any_trimmed,
     additional_prefix |-> sent_merger.additional_prefix,
     qualifier |-> sent_merger.qualifier,
     ancestors_covering_multiple_terms |-> sent_merger.ancestors_covering_multiple_terms]

MergeSentencesWithSamePrefix(sentences, remove_parent_terms, high_priority_term_ids) ==
    LET prefixes == MergedPrefixes(sentences)
        merger(k) == IF remove_parent_terms
                     THEN MergerWithoutParents(MergerOf(sentences, prefixes[k]), high_priority_term_ids)
                     ELSE MergerOf(sentences, prefixes[k])
        kept == SetToSeq({k \in DOMAIN prefixes : merger(k).terms_ids # {}})
    IN  [i \in DOMAIN kept |-> MergedSentence(prefixes[kept[i]], merger(kept[i]))]

(***************************************************************************)
(* merge_sentences_with_same_prefix on one sentence, on two copies of one  *)
(* sentence and on two sentences of different evidence groups.             *)
(***************************************************************************)
MaxSentenceTerms == 2  \* most terms in a sentence drawn

TemplateMaps ==
    {[eg \in EvidenceGroups |-> IF eg = "EXPERIMENTAL" THEN <<PrefixA, p1>> ELSE <<x2, p2>>] :
        p1 \in {<<>>, PostfixP}, x2 \in {PrefixA, PrefixB}, p2 \in {<<>>, PostfixP, PostfixQ}}

InitMerge ==
    /\ \E par \in DAGs : ontology = OntologyOf(par, {})
    /\ trimmer = NoValue
    /\ \E map \in TemplateMaps : generator = [prepostfix_sentences_map |-> map]
    /\ call = NoCall
    /\ ret = NoValue
    /\ fsc = NoFSC
    /\ gms = NoGMS

SentenceTerms == {T \in TermSets : Cardinality(T) <= MaxSentenceTerms}

SentenceLists ==
    LET single == {GetSingleSentence(T, eg, FALSE) : T \in SentenceTerms, eg \in EvidenceGroups}
    IN  {<<s>> : s \in single} \cup {<<s, s>> : s \in single}
          \cup {<<p[1], p[2]>> : p \in {q \in single \X single :
                                                 q[1].evidence_group # q[2].evidence_group}}

CallMergeSentences ==
    /\ call = NoCall
    /\ \E sentences \in SentenceLists, remove_parent_terms \in BOOLEAN :
       \E high_priority_term_ids \in IF remove_parent_terms THEN {{}, {1}} ELSE {{}} :
          /\ call' = [op |-> "merge_sentences_with_same_prefix", sentences |-> sentences,
                      remove_parent_terms |-> remove_parent_terms,
                      high_priority_term_ids |-> high_priority_term_ids]
          /\ ret' = MergeSentencesWithSamePrefix(sentences, remove_parent_terms,
                                                 high_priority_term_ids)
    /\ UNCHANGED <<ontology, trimmer, fsc, generator, gms>>

NextMerge == CallMergeSentences

SpecMerge == InitMerge /\ [][NextMerge]_vars

\* str.startswith
StartsWith(str, prefix) ==
    Len(prefix) <= Len(str) /\ SubSeq(str, 1, Len(prefix)) = prefix

Experimental == <<"E", "X", "P", "E", "R", "I", "M", "E", "N", "T", "A", "L">>

\* the characters of the name of an evidence group
GroupName(evidence_group) ==
    IF evidence_group = "EXPERIMENTAL" THEN Experimental ELSE <<"P", "R", "E", "D", "I", "C", "T", "E", "D">>

\* line 329: ", ".join(sent_merger.evidence_groups); the evidence_group of a
\* sentence is kept as the list of the names joined
EvidenceGroupText(evidence_group) ==
    Join(CommaSpace, [i \in DOMAIN evidence_group |-> GroupName(evidence_group[i])])
(***************************************************************************)
(* OntologySentenceGenerator.get_module_sentences, one evidence group at a *)
(* step.  terms_groups holds the terms of the evidence groups of one       *)
(* (aspect, qualifier); the templates are keyed by evidence group.         *)
(***************************************************************************)
MaxGroupTerms == 2     \* most terms annotated to one evidence group

GroupList == <<"EXPERIMENTAL", "PREDICTED">>

\* lines 176-179: terms -= ... changes the set that terms_groups stores
TermsAfterSubtraction(terms) ==
    LET t1 == IF generator.del_overlap THEN terms \ generator.terms_already_covered ELSE terms
    IN  IF generator.exclude_terms # {} THEN t1 \ generator.exclude_terms ELSE t1

\* the evidence groups that have terms, lowest priority first
GroupsByReversedPriority ==
    LET l == generator.evidence_groups_priority_list
    IN  SelectSeq([i \in DOMAIN l |-> l[Len(l) + 1 - i]],
                  LAMBDA eg : eg \in DOMAIN generator.terms_groups)

\* lines 145-148: the evidence groups that have terms, by priority
GroupsByPriority ==
    SelectSeq(generator.evidence_groups_priority_list,
              LAMBDA eg : eg \in DOMAIN generator.terms_groups)

\* lines 151-161: the sentence of an evidence group, if it has a template and
\* terms are left
GroupSentence(evidence_group, o) ==
    IF evidence_group \in DOMAIN generator.prepostfix_sentences_map /\ Len(o.terms) > 0
    THEN <<[GetSingleSentence(SeqToSet(o.terms), evidence_group, o.trimmed)
               EXCEPT !.terms_ids = o.terms,
                      !.ancestors_covering_multiple_terms = o.ancestors_covering_multiple_children]>>
    ELSE <<>>

\* ModuleSentences.get_ids
GetIds(sentences, experimental_only) ==
    Concat([i \in DOMAIN sentences |->
               IF ~experimental_only \/ StartsWith(EvidenceGroupText(sentences[i].evidence_group),
                                                   Experimental)
               THEN sentences[i].terms_ids ELSE <<>>])

ModuleDeviationSets ==
    SubsetsUpTo({<<"no_del_overlap", 1>>, <<"reversed_priority", 1>>}
                    \cup ({"no_template"} \X DOMAIN GroupList),
                MaxDeviations)

GroupTerms == {T \in TermSets : Cardinality(T) <= MaxGroupTerms}

\* OntologySentenceGenerator.__init__ for a gene with annotations in both
\* evidence groups: up to MaxGroupTerms terms in the first one and one term
\* in the second one
ModuleGeneratorOf(algo, max_terms, G, T1, T2) ==
    [del_overlap |-> <<"no_del_overlap", 1>> \notin G,
     remove_parents |-> TRUE,
     remove_child_terms |-> FALSE,
     max_terms |-> max_terms,
     exclude_terms |-> {},
     add_mul_common_anc |-> TRUE,
     trimming_algorithm |-> algo,
     dist_root |-> DefaultDistRoot,
     terms_already_covered |-> {},
     evidence_groups_priority_list |->
         IF <<"reversed_priority", 1>> \in G THEN <<GroupList[2], GroupList[1]>> ELSE GroupList,
     prepostfix_sentences_map |->
         [eg \in {GroupList[i] : i \in {j \in DOMAIN GroupList : <<"no_template", j>> \notin G}} |->
             IF eg = GroupList[1] THEN <<PrefixA, PostfixP>> ELSE <<PrefixA, PostfixQ>>],
     terms_groups |-> [eg \in SeqToSet(GroupList) |-> IF eg = GroupList[1] THEN T1 ELSE T2]]

InitModule ==
    /\ \E par \in DAGs, algo \in TrimmingAlgorithms, max_terms \in 1..MaxCap,
          G \in ModuleDeviationSets, T1 \in GroupTerms,
          T2 \in {T \in GroupTerms : Cardinality(T) = 1} :
          /\ ontology = OntologyOf(par, {})
          /\ generator = ModuleGeneratorOf(algo, max_terms, G, T1, T2)
          /\ trimmer = [min_distance_from_root |-> DefaultDistRoot.P,
                        nodeids_blacklist |-> {},
                        slim_set |-> {},
                        slim_terms_ic_bonus_perc |-> 0]
    /\ call = NoCall
    /\ ret = NoValue
    /\ fsc = NoFSC
    /\ gms = NoGMS

\* lines 144-145; with keep_only_best_group the merge of line 165 is reached
\* only with an empty list of sentences, so that the calls with
\* keep_only_best_group are made without merge_groups_with_same_prefix
CallGetModuleSentences ==
    /\ call = NoCall
    /\ \E keep_only_best_group \in BOOLEAN :
       \E merge_groups_with_same_prefix \in IF keep_only_best_group THEN {FALSE} ELSE BOOLEAN :
          call' = [op |-> "get_module_sentences", aspect |-> Aspect,
                   keep_only_best_group |-> keep_only_best_group,
                   merge_groups_with_same_prefix |-> merge_groups_with_same_prefix,
                   high_priority_term_ids |-> {}]
    /\ gms' = [pc |-> "loop", todo |-> GroupsByPriority, sentences |-> <<>>, groups |-> <<>>]
    /\ UNCHANGED <<ontology, trimmer, ret, fsc, generator>>

\* lines 146-163: one evidence group
ModuleGroup ==
    /\ gms.pc = "loop"
    /\ gms.todo # <<>>
    /\ LET evidence_group == Head(gms.todo)
           terms == generator.terms_groups[evidence_group]
       IN  \E o \in ReduceTerms(terms, call.high_priority_term_ids) :
              LET sentence == GroupSentence(evidence_group, o)
                  done == sentence # <<>> /\ call.keep_only_best_group
              IN  /\ generator' = [generator EXCEPT
                                      !.terms_already_covered = o.covered,
                                      !.terms_groups[evidence_group] = TermsAfterSubtraction(terms)]
                  /\ gms' = [pc |-> IF o.raised THEN "raised" ELSE IF done THEN "done" ELSE "loop",
                             todo |-> Tail(gms.todo),
                             sentences |-> IF o.raised THEN gms.sentences
                                           ELSE gms.sentences \o sentence,
                             groups |-> Append(gms.groups, [evidence_group |-> evidence_group,
                                                            terms |-> o.terms])]
                  /\ ret' = IF o.raised THEN Raised
                            ELSE IF done THEN gms.sentences \o sentence ELSE ret
    /\ UNCHANGED <<ontology, trimmer, call, fsc>>

\* lines 164-168; groups is the history of the reduce_terms calls of the loop:
\* the evidence group and the terms returned for it
ModuleReturn ==
    /\ gms.pc = "loop"
    /\ gms.todo = <<>>
    /\ LET sentences == IF call.merge_groups_with_same_prefix
                        THEN MergeSentencesWithSamePrefix(gms.sentences, generator.remove_parents,
                                                          call.high_priority_term_ids)
                        ELSE gms.sentences
       IN  /\ gms' = [gms EXCEPT !.pc = "done"]
           /\ ret' = sentences
    /\ UNCHANGED <<ontology, trimmer, call, fsc, generator>>

\* ModuleSentences.get_ids on the sentences returned
ModuleGetIds ==
    /\ gms.pc = "done"
    /\ \E experimental_only \in BOOLEAN :
          gms' = [pc |-> "ids", todo |-> gms.todo, sentences |-> gms.sentences,
                  groups |-> gms.groups, experimental_only |-> experimental_only,
                  ids |-> GetIds(ret, experimental_only)]
    /\ UNCHANGED <<ontology, trimmer, call, ret, fsc, generator>>

NextModule == CallGetModuleSentences \/ ModuleGroup \/ ModuleReturn \/ ModuleGetIds

SpecModule == InitModule /\ [][NextModule]_vars

(***************************************************************************)
(* Properties.                                                             *)
(***************************************************************************)
IsTrim == call.op \in {"trim_ic", "trim_lca", "trim_naive"}

TrimReturned == IsTrim /\ ~ret.raised

ReturnedIds == {ret.best_terms[i][1] : i \in DOMAIN ret.best_terms}

\* C1: at every step of find_set_covering, and in the list it returns, no
\* selected candidate is a strict ontology ancestor of another one.
\* (SpecFSC)
NoRelatedCandidatesSelected ==
    fsc.pc # "idle" =>
        \A i, j \in DOMAIN fsc.f.included_sets :
            fsc.f.included_sets[i][1] \notin Ancestors(fsc.f.included_sets[j][1], FALSE)

\* C2: for each of the three algorithms and every positive cap, the list
\* returned by trim has at most max_num_nodes entries.  (SpecTrim)
SelectionWithinCap ==
    (TrimReturned /\ call.max_num_nodes > 0) => Len(ret.best_terms) <= call.max_num_nodes

\* a trim whose selection fills a cap smaller than the number of input terms
\* and leaves input terms uncovered
SelectionFillsCap ==
    /\ TrimReturned
    /\ Len(ret.best_terms) = call.max_num_nodes
    /\ Cardinality(call.node_ids) > call.max_num_nodes
    /\ CoveredTerms(ret.best_terms) # call.node_ids

\* C3 as stated: in every trimming call, every input term is a returned id or
\* a descendant of a returned id.  (SpecTrim)
EveryInputTermCovered ==
    TrimReturned => \A t \in call.node_ids : \E a \in ReturnedIds : a \in Ancestors(t, TRUE)

\* C3: for the three algorithms, every input term listed in a returned
\* covered-set is the returned id of that entry or a descendant of it; and
\* when the IC algorithm returns false as its boolean, every input term is a
\* returned id or a descendant of one.  (SpecTrim)
CoveredInputTermsUnderReturnedIds ==
    /\ TrimReturned =>
          \A i \in DOMAIN ret.best_terms :
             \A t \in ret.best_terms[i][2] \cap call.node_ids :
                ret.best_terms[i][1] \in Ancestors(t, TRUE)
    /\ (TrimReturned /\ call.op = "trim_ic" /\ ~ret.trimmed) =>
          \A t \in call.node_ids : \E a \in ReturnedIds : a \in Ancestors(t, TRUE)

\* an IC trim that returns false and generalizes an input term to a strict
\* ancestor
InputTermGeneralized ==
    /\ TrimReturned
    /\ call.op = "trim_ic"
    /\ ~ret.trimmed
    /\ \E i \in DOMAIN ret.best_terms :
          \E t \in ret.best_terms[i][2] \cap call.node_ids :
             ret.best_terms[i][1] \in Ancestors(t, FALSE)

MixedNamespaces == Cardinality({NodeRoot(n) : n \in call.node_ids} \ {NoValue}) > 1

\* C4: for each of the three algorithms, trim on a term set whose terms carry
\* two different root namespaces fails with an error.  (SpecTrim)
MixedNamespacesRaise == (IsTrim /\ MixedNamespaces) => ret.raised

IsReduce == call.op = "reduce_terms" /\ ~ret.raised

HighPriorityEntering == ret.entering \cap call.high_priority_term_ids

\* C5: when more terms than max_terms enter step 4 of reduce_terms and at
\* most max_terms of them are high priority terms, every one of these high
\* priority terms is in the returned list.  (SpecReduce)
HighPriorityTermsKept ==
    (/\ IsReduce
     /\ generator.max_terms > 0
     /\ Cardinality(ret.entering) > generator.max_terms
     /\ Cardinality(HighPriorityEntering) <= generator.max_terms)
        => HighPriorityEntering \subseteq SeqToSet(ret.terms)

\* a reduction that keeps its high priority terms while a low priority term
\* that entered step 4 is not returned
LowPriorityTermReduced ==
    /\ IsReduce
    /\ Cardinality(ret.entering) > generator.max_terms
    /\ HighPriorityEntering # {}
    /\ Cardinality(HighPriorityEntering) <= generator.max_terms
    /\ HighPriorityEntering \subseteq SeqToSet(ret.terms)
    /\ (ret.entering \ call.high_priority_term_ids) \ SeqToSet(ret.terms) # {}

IsSelfMerge ==
    /\ call.op = "merge_sentences_with_same_prefix"
    /\ Len(call.sentences) = 2
    /\ call.sentences[1] = call.sentences[2]

\* C6: merging two copies of one sentence yields one sentence with the postfix
\* and the text of the original sentence.  (SpecMerge)
SelfMergeUnchanged ==
    IsSelfMerge =>
        /\ Len(ret) = 1
        /\ ret[1].postfix = call.sentences[1].postfix
        /\ ret[1].text = call.sentences[1].text

IsLocatedXYZ == call.op = "merge_postfix_phrases" /\ call.postfix_phrases = LocatedXYZ

\* C7 as stated: merge_postfix_phrases on "located in the X", "located in the
\* Y", "located in the Z" returns "located in the X, Y, and Zs".  (SpecPhrases)
LocatedXYZPluralized == IsLocatedXYZ => ret = <<"l", "o", "c", "a", "t", "e", "d", " ", "i", "n", " ", "t", "h", "e", " ", "X", ",", " ", "Y", ",", " ", "a", "n", "d", " ", "Z", "s">>

\* C7: merge_postfix_phrases on "located in the X", "located in the Y",
\* "located in the Z" returns "located in the X, Y, and Z": the common prefix
\* is taken once, the fragments are joined with commas and a final "and", and
\* the common suffix is empty, so that nothing is put in the plural.
\* (SpecPhrases)
LocatedXYZMerged ==
    IsLocatedXYZ =>
        /\ ret = <<"l", "o", "c", "a", "t", "e", "d", " ", "i", "n", " ", "t", "h", "e", " ", "X", ",", " ", "Y", ",", " ", "a", "n", "d", " ", "Z">>
        /\ FirstPart(call.postfix_phrases) = LocatedInThe
        /\ LastPart(call.postfix_phrases) = <<>>

\* the three phrases have been merged
LocatedXYZCalled == IsLocatedXYZ /\ ret # NoValue /\ Len(ret) > Len(LocatedInThe)

\* C8: with max_terms > 0, the list of terms reduce_terms returns has at most
\* max_terms elements.  (SpecReduce)
ReducedWithinMaxTerms ==
    (IsReduce /\ generator.max_terms > 0) => Len(ret.terms) <= generator.max_terms

\* a reduction of more terms than max_terms, high priority terms among them,
\* that returns max_terms terms
ReducedToMaxTerms ==
    /\ IsReduce
    /\ Cardinality(call.terms) > generator.max_terms
    /\ call.high_priority_term_ids # {}
    /\ Len(ret.terms) = generator.max_terms

\* C9 as stated: every term of the call that reduce_terms does not return is
\* in terms_already_covered when it returns.  (SpecReduce)
EveryRemovedTermCovered ==
    IsReduce => (call.terms \ SeqToSet(ret.terms)) \subseteq generator.terms_already_covered

\* C9: every term removed by parent removal (step 3) or by child removal
\* (step 5) is in terms_already_covered when reduce_terms returns.
\* (SpecReduce)
RemovedRelativesCovered ==
    IsReduce =>
        (ret.removed_parents \cup ret.removed_children) \subseteq generator.terms_already_covered

\* a reduction that removed a parent in step 3 and a child in step 5
RelativesRemoved ==
    /\ IsReduce
    /\ ret.removed_parents # {}
    /\ ret.removed_children # {}

\* C10: the boolean returned by trim is true exactly when the union of the
\* returned covered-sets differs from the set of input terms.  (SpecTrim)
TrimmedIffUndercovered ==
    TrimReturned => (ret.trimmed <=> CoveredTerms(ret.best_terms) # call.node_ids)

\* C11: with overlap removal enabled, at every point of a call of
\* get_module_sentences the term lists of the sentences made so far for two
\* different evidence groups are disjoint.  (SpecModule)
GroupSentencesDisjoint ==
    (gms.pc \in {"loop", "done"} /\ generator.del_overlap) =>
        \A i, j \in DOMAIN gms.sentences :
            gms.sentences[i].evidence_group # gms.sentences[j].evidence_group =>
                SeqToSet(gms.sentences[i].terms_ids) \cap SeqToSet(gms.sentences[j].terms_ids) = {}

IsModule == call.op = "get_module_sentences"

ModuleDone == IsModule /\ gms.pc \in {"done", "ids"}

\* line 145: the priority of an evidence group is its index in the priority list
PriorityOf(evidence_group) ==
    CHOOSE p \in DOMAIN generator.evidence_groups_priority_list :
        generator.evidence_groups_priority_list[p] = evidence_group

\* the processed evidence groups that have a template and a non-empty reduced
\* term list
GroupsWithSentence ==
    {i \in DOMAIN gms.groups :
        /\ gms.groups[i].evidence_group \in DOMAIN generator.prepostfix_sentences_map
        /\ gms.groups[i].terms # <<>>}

\* C12: with keep_only_best_group, get_module_sentences returns at most one
\* sentence; it returns one when some evidence group has a template and a
\* non-empty reduced term list, and the sentence is the one of the group of
\* smallest index in the priority list among these groups, every group not
\* yet reduced having a larger index.  (SpecModule)
OnlyBestGroupKept ==
    (ModuleDone /\ call.keep_only_best_group) =>
        /\ Len(ret) <= 1
        /\ (GroupsWithSentence # {}) = (Len(ret) = 1)
        /\ Len(ret) = 1 =>
              LET best == PriorityOf(ret[1].evidence_group[1])
              IN  /\ Len(ret[1].evidence_group) = 1
                  /\ \A i \in GroupsWithSentence : best <= PriorityOf(gms.groups[i].evidence_group)
                  /\ \A i \in DOMAIN gms.todo : best < PriorityOf(gms.todo[i])
                  /\ SeqToSet(ret[1].terms_ids) # {}

\* C12 witness: the group of highest priority gives no sentence and the
\* sentence of the second group is returned
SecondGroupKept ==
    /\ ModuleDone /\ call.keep_only_best_group
    /\ Len(ret) = 1
    /\ Len(gms.groups) = 2
    /\ PriorityOf(ret[1].evidence_group[1]) = 2

\* the term ids of the sentences that get_module_sentences made for an
\* evidence group whose name starts with "EXPERIMENTAL"
ExperimentalTermIds ==
    UNION {SeqToSet(gms.sentences[i].terms_ids) :
              i \in {j \in DOMAIN gms.sentences :
                        StartsWith(GroupName(gms.sentences[j].evidence_group[1]), Experimental)}}

\* C13: get_ids(experimental_only=True) on the sentences returned by
\* get_module_sentences, merged or not, returns only term ids of a sentence
\* made for an evidence group whose name starts with "EXPERIMENTAL", and
\* get_ids() returns the term ids of all the sentences.  (SpecModule)
ExperimentalIdsOnly ==
    (IsModule /\ gms.pc = "ids") =>
        IF gms.experimental_only
        THEN SeqToSet(gms.ids) \subseteq ExperimentalTermIds
        ELSE SeqToSet(gms.ids) = UNION {SeqToSet(ret[i].terms_ids) : i \in DOMAIN ret}

\* the indices of the candidates of find_set_covering not yet processed
FSCPool(f) == {i \in DOMAIN f.subsets : f.subsets[i].node_id \in f.elem_to_process}

\* the marginal coverage of candidate i, times its weight when weights are given
FSCMarginal(f, i) ==
    Cardinality(f.subsets[i].covered_starting_nodes \ f.included_elmts)
        * (IF f.value = <<>> THEN 1 ELSE f.value[i])

\* C14: every iteration of find_set_covering selects one candidate, which is
\* among the candidates not yet processed one of largest marginal coverage
\* (times its weight when weights are given) and, among those of that score,
\* the one of smallest label.  (SpecFSC)
SelectedIsBest ==
    [][(fsc.pc = "loop" /\ fsc'.pc = "loop") =>
          LET f == fsc.f
              selected == fsc'.f.selected
          IN  /\ Len(selected) = Len(f.selected) + 1
              /\ \E b \in FSCPool(f) :
                    /\ f.subsets[b].node_id = selected[Len(selected)]
                    /\ \A j \in FSCPool(f) :
                          \/ FSCMarginal(f, b) > FSCMarginal(f, j)
                          \/ /\ FSCMarginal(f, b) = FSCMarginal(f, j)
                             /\ f.subsets[b].node_label <= f.subsets[j].node_label]_vars

\* C14 witness: the first selection was made with weights, between two
\* candidates of the same largest score, and fell on the smaller label
TieBrokenByLabel ==
    /\ fsc.pc = "loop"
    /\ Len(fsc.f.selected) = 1
    /\ fsc.f.value # <<>>
    /\ LET s == fsc.f.subsets
           score(i) == Cardinality(s[i].covered_starting_nodes) * fsc.f.value[i]
       IN  \E b, j \in DOMAIN s :
              /\ s[b].node_id = fsc.f.selected[1]
              /\ j # b
              /\ score(j) = score(b)
              /\ s[b].node_label < s[j].node_label
              /\ \E k \in DOMAIN s : score(k) < score(b)

\* one of the three conditions that end the loop of find_set_covering holds
FSCMustStop(f) ==
    \/ f.elem_to_process = {}
    \/ f.included_elmts = f.universe
    \/ (f.max_num_subsets > 0 /\ Len(f.included_sets) >= f.max_num_subsets)

\* C15: every call of find_set_covering returns; no candidate id is selected
\* twice; an iteration is made only when the pool is not exhausted, the
\* universe is not covered and the selection is below the cap, and the call
\* returns only when one of the three holds.  (SpecFSCFair)
FindSetCoveringTerminates ==
    /\ (fsc.pc = "loop") ~> (fsc.pc = "done")
    /\ [](fsc.pc \in {"loop", "done"} =>
             /\ \A i, j \in DOMAIN fsc.f.selected : i # j => fsc.f.selected[i] # fsc.f.selected[j]
             /\ SeqToSet(fsc.f.selected) \subseteq {call.subsets[i].node_id : i \in DOMAIN call.subsets}
             /\ (fsc.pc = "done" => FSCMustStop(fsc.f)))
    /\ [][(fsc.pc = "loop" /\ fsc'.pc = "loop") => ~FSCMustStop(fsc.f)]_vars

\* C15 witness: a call returned after two selections because the universe was
\* covered, with candidates left in the pool and no cap
StoppedWhenCovered ==
    /\ fsc.pc = "done"
    /\ Len(fsc.f.selected) = 2
    /\ fsc.f.elem_to_process # {}
    /\ fsc.f.max_num_subsets = 0
    /\ fsc.f.included_elmts = fsc.f.universe

IsLCA == call.op = "trim_lca" /\ ~ret.raised

\* the candidates of the running trim call
CallCands == GetAllTrimmingCandidates(call.node_ids, trimmer.min_distance_from_root)

\* C16: no candidate selected by the loop of the LCA algorithm is shallower
\* than another candidate with the same covered-set.  (SpecTrim)
DeepestOfEqualCoverSelected ==
    IsLCA =>
        \A i \in DOMAIN call.selected_cands_ids :
            \A j \in DOMAIN CallCands :
                CallCands[j].covered_starting_nodes = CandCovered(CallCands, call.selected_cands_ids[i])
                    => Depth(CallCands[j].node_id) <= Depth(call.selected_cands_ids[i])

\* C17 as stated: the candidates selected by the loop of the LCA algorithm
\* are pairwise incomparable (no covered-set is a strict superset of another
\* one) and no candidate id is selected twice.  (SpecTrim)
SelectedIncomparableAndDistinct ==
    IsLCA =>
        \A i, j \in DOMAIN call.selected_cands_ids :
            i # j =>
                LET ci == CandCovered(CallCands, call.selected_cands_ids[i])
                    cj == CandCovered(CallCands, call.selected_cands_ids[j])
                IN  /\ ~(cj \subseteq ci /\ ci # cj)
                    /\ call.selected_cands_ids[i] # call.selected_cands_ids[j]

IsNaive == call.op = "trim_naive" /\ ~ret.raised

\* C18: the Naive algorithm takes its paths term by term in sorted order of
\* the terms, and each path it takes is a shortest one of the paths the
\* current term has left.  (SpecTrim)
ShortestPathTakenFirst ==
    IsNaive =>
        /\ \A i, j \in DOMAIN call.taken : i < j => call.taken[i].node_id <= call.taken[j].node_id
        /\ \A i \in DOMAIN call.taken :
              /\ call.taken[i].path \in call.taken[i].term_paths
              /\ \A p \in call.taken[i].term_paths : Len(call.taken[i].path) <= Len(p)

IsParentRemoval == IsReduce /\ generator.remove_parents

\* C19 as stated: with parent removal enabled, step 3 of reduce_terms drops
\* exactly the terms that have an ancestor in the set and are not high
\* priority terms.  (SpecReduce)
TermsWithAncestorPresentDropped ==
    IsParentRemoval =>
        LET S == ret.after_exclusion
        IN  ret.entering =
                S \ {t \in S : Ancestors(t, FALSE) \cap S # {}
                               /\ t \notin call.high_priority_term_ids}

\* C19: with parent removal enabled, step 3 of reduce_terms drops exactly the
\* terms that are an ancestor of another term of the set and are not high
\* priority terms, and keeps every other term.  (SpecReduce)
AncestorsOfPresentTermsDropped ==
    IsParentRemoval =>
        LET S == ret.after_exclusion
        IN  ret.entering =
                S \ {t \in S : (\E n \in S : t \in Ancestors(n, FALSE))
                               /\ t \notin call.high_priority_term_ids}

\* C19 witness: step 3 dropped an ancestor and kept a high priority term that
\* is an ancestor of a term of the set
ParentDroppedHighPriorityKept ==
    /\ IsParentRemoval
    /\ ret.after_exclusion # ret.entering
    /\ \E t \in ret.entering \cap call.high_priority_term_ids :
          \E n \in ret.after_exclusion : t \in Ancestors(n, FALSE)

\* C20: no call of reduce_terms, with the calls it makes of
\* get_trimmed_terms_by_common_ancestor, remove_parents_if_child_present and
\* remove_children_if_parents_present, takes a term out of
\* terms_already_covered.  (SpecReduce)
CoveredTermsOnlyGrow ==
    [][generator.terms_already_covered \subseteq generator'.terms_already_covered]_vars

\* C20 witness: reduce_terms returned with a term covered before the call
\* (not one of the terms of the call) and terms of the call in
\* terms_already_covered, after trimming and child removal
CoveredTermsGrown ==
    /\ IsReduce
    /\ generator.remove_parents
    /\ generator.terms_already_covered \ call.terms # {}
    /\ generator.terms_already_covered \cap call.terms # {}
    /\ ret.trimmed
    /\ ret.removed_children # {}

\* the non-empty phrases of the running call of merge_postfix_phrases
CallPhrases == NonEmptyPhrases(call.postfix_phrases)

\* C21: in merge_postfix_phrases with two or more non-empty phrases, the
\* common prefix, the fragment of a phrase and the common suffix (before it
\* is put in the plural) make up the phrase again, for every phrase.
\* (SpecPhrases)
PartsDecomposePhrases ==
    (call.op = "merge_postfix_phrases" /\ Len(CallPhrases) > 1) =>
        \A i \in DOMAIN CallPhrases :
            FirstPart(CallPhrases) \o NewPhrases(CallPhrases)[i] \o LastPart(CallPhrases)
                = CallPhrases[i]

\* C22: for the ontology, the term set and the cap of a call of the LCA
\* algorithm, every order in which the candidate ids are popped selects the
\* same set of candidate ids as the run made.  (SpecTrim)
PopOrderIrrelevant ==
    IsLCA =>
        \A o \in LCAOutcomes(call.node_ids, call.max_num_nodes) :
            SeqToSet(o.selected_cands_ids) = SeqToSet(call.selected_cands_ids)

(***************************************************************************)
(* find_set_covering as TrimmingAlgorithmNaive.trim calls it (lines        *)
(* 299-302): the candidates are the entries of final_terms_set, there are  *)
(* no weights and the cap is max_num_nodes (0 stands for no cap).  The     *)
(* call is made when final_terms_set has more entries than the cap.        *)
(***************************************************************************)
InitFSCNaive ==
    /\ \E par \in DAGs, D \in DeviationSets, dist \in 0..MaxDist :
          /\ ontology = OntologyOf(par, D)
          /\ trimmer = TrimmerOf(dist, D)
    /\ call = NoCall
    /\ ret = <<>>
    /\ fsc = NoFSC
    /\ gms = NoGMS
    /\ generator = NoValue

\* line 300: one TrimmingCandidate for every entry of final_terms_set
NaiveCandidates(final_terms_set) ==
    [i \in DOMAIN final_terms_set |->
        TrimmingCandidate(final_terms_set[i][1], final_terms_set[i][2])]

FSCCallNaive ==
    /\ call = NoCall
    /\ \E node_ids \in TermSets, max_num_nodes \in 0..MaxCap :
          \E st \in NaiveMerge({NaiveStart(node_ids)}, SetToSeq(node_ids)) :
             LET subsets == NaiveCandidates(st.final_terms_set)
             IN  /\ Len(st.final_terms_set) > max_num_nodes
                 /\ call' = [op |-> "find_set_covering", node_ids |-> node_ids,
                             subsets |-> subsets, value |-> <<>>,
                             max_num_subsets |-> max_num_nodes]
                 /\ fsc' = [pc |-> "loop", f |-> FSCStart(subsets, <<>>, max_num_nodes)]
    /\ UNCHANGED <<ontology, trimmer, ret, generator, gms>>

NextFSCNaive == FSCCallNaive \/ FSCStep \/ FSCReturn

SpecFSCNaive == InitFSCNaive /\ [][NextFSCNaive]_vars

\* C23: when find_set_covering has returned from a call without a cap, the
\* union of the covered-sets of the returned list is the universe of the
\* call, whether or not selected candidates were removed from the list.
\* (SpecFSCNaive)
UncappedCoversUniverse ==
    (fsc.pc = "done" /\ fsc.f.max_num_subsets = 0) =>
        UNION {ret[i][2] : i \in DOMAIN ret} = fsc.f.universe

\* the evidence group the loop of get_module_sentences processes next has no
\* template in prepostfix_sentences_map
NextGroupWithoutTemplate ==
    /\ IsModule
    /\ gms.pc = "loop"
    /\ gms.todo # <<>>
    /\ Head(gms.todo) \notin DOMAIN generator.prepostfix_sentences_map

\* C24: processing an evidence group that has no template leaves
\* terms_already_covered and the stored terms_groups as they were.
\* (SpecModule)
SkippedGroupWithoutEffect ==
    [][NextGroupWithoutTemplate =>
          /\ generator'.terms_already_covered = generator.terms_already_covered
          /\ generator'.terms_groups = generator.terms_groups]_vars

=============================================================================
